---- MODULE Spec2Model ----
(***************************************************************************)
(* A circular genome with transposable elements (genome.py).               *)
(*                                                                         *)
(* Two implementations of the Genome interface are modelled side by side:  *)
(* ListGenome (a Python list of characters) and LinkedListGenome (a ring   *)
(* of doubly linked Link objects around a sentinel head).  One script of   *)
(* insert_te / copy_te / disable_te calls is applied to both, call by      *)
(* call; the state records both objects, the call, what each object        *)
(* returned or raised, the two objects as they were before the call, and   *)
(* the ids each object has returned so far.                                *)
(***************************************************************************)
EXTENDS Integers, Sequences, FiniteSets, TLC

\* ---------------------------------------------------------------- bounds
MaxN == 2          \* genomes are constructed with n in 0..MaxN
MaxLength == 2     \* insert_te is called with length in 1..MaxLength
MaxCalls == 3      \* number of calls in a script
MaxOffset == 3     \* copy_te is called with offset in -MaxOffset..MaxOffset
OverPos == 2       \* insert_te is called with pos in 0..len(genome)+OverPos

VARIABLES n, lst, lnk, call, ret, old, calls, issued

vars == <<n, lst, lnk, call, ret, old, calls, issued>>

\* ------------------------------------------------------- Python helpers
\* The value of a call: a returned int, a returned None, or the exception
\* that left the call.
Returned(k) == [kind |-> "int", val |-> k]
ReturnedNone == [kind |-> "None", val |-> 0]
Raised(e) == [kind |-> e, val |-> 0]

Min(a, b) == IF a < b THEN a ELSE b
Max(a, b) == IF a < b THEN b ELSE a

\* k * [c]: a list of k copies of c, empty for k <= 0.
Repeat(c, k) == [i \in 1..Max(k, 0) |-> c]

\* The keys of a dict in iteration order.  Keys are only ever added with the
\* next value of te_count, and re-assigning a key keeps its place, so
\* iteration order is ascending id.
RECURSIVE Keys(_)
Keys(d) ==
    IF DOMAIN d = {} THEN <<>>
    ELSE LET k == CHOOSE x \in DOMAIN d : \A y \in DOMAIN d : x <= y
         IN <<k>> \o Keys([x \in DOMAIN d \ {k} |-> d[x]])

\* d.pop(k) for a key that is present: the dict without k.
Pop(d, k) == [x \in DOMAIN d \ {k} |-> d[x]]

\* d[k] = v
SetItem(d, k, v) == [x \in DOMAIN d \cup {k} |-> IF x = k THEN v ELSE d[x]]

\* g[start:end] = xs for 0 <= start, 0 <= end (slice bounds clamp to len(g)).
SliceAssign(g, start, end, xs) ==
    LET s == Min(start, Len(g))
        e == Max(Min(end, Len(g)), s)
    IN SubSeq(g, 1, s) \o xs \o SubSeq(g, e + 1, Len(g))

\* ----------------------------------------------------------- ListGenome
ListGenome(size) ==
    [genome |-> Repeat("-", size), te_identities |-> <<>>, te_count |-> 0]

\* The loop of insert_te as it would be if a colliding TE's cells were cut
\* out of the genome instead of overwritten with 'x'.
RECURSIVE ListInsertLoop_CutsCells(_, _, _, _, _)
ListInsertLoop_CutsCells(self, ids, items, pos, length) ==
    IF ids = <<>> THEN self
    ELSE LET id == Head(ids)
             start == items[id][1]
             end == items[id][2]
         IN IF start <= pos /\ pos < end
            THEN ListInsertLoop_CutsCells(
                     [self EXCEPT
                        !.genome = SliceAssign(@, start, end, <<>>),
                        !.te_identities = Pop(@, id)],
                     Tail(ids), items, pos, length)
            ELSE IF start > pos
            THEN ListInsertLoop_CutsCells(
                     [self EXCEPT
                        !.te_identities =
                            SetItem(@, id, <<start + length, end + length>>)],
                     Tail(ids), items, pos, length)
            ELSE ListInsertLoop_CutsCells(self, Tail(ids), items, pos, length)

\* The loop of insert_te over the snapshot list(self.te_identities.items()).
RECURSIVE ListInsertLoop(_, _, _, _, _)
ListInsertLoop(self, ids, items, pos, length) ==
    IF ids = <<>> THEN self
    ELSE LET id == Head(ids)
             start == items[id][1]
             end == items[id][2]
         IN IF start <= pos /\ pos < end
            THEN ListInsertLoop(
                     [self EXCEPT
                        !.genome = SliceAssign(@, start, end,
                                               Repeat("x", end - start)),
                        !.te_identities = Pop(@, id)],
                     Tail(ids), items, pos, length)
            ELSE IF start > pos
            THEN ListInsertLoop(
                     [self EXCEPT
                        !.te_identities =
                            SetItem(@, id, <<start + length, end + length>>)],
                     Tail(ids), items, pos, length)
            ELSE ListInsertLoop(self, Tail(ids), items, pos, length)

\* insert_te as it would be with the position circularized before the range
\* check: a pos beyond the end wraps instead of raising.
ListGenome_insert_te_ModFirst(self, pos0, length) ==
    IF Len(self.genome) = 0
    THEN [self |-> self, ret |-> Raised("ZeroDivisionError")]
    ELSE LET pos == pos0 % Len(self.genome)
             s1 == ListInsertLoop(self, Keys(self.te_identities),
                                  self.te_identities, pos, length)
             id == s1.te_count + 1
         IN [self |->
                [genome |-> SubSeq(s1.genome, 1, pos) \o Repeat("A", length)
                            \o SubSeq(s1.genome, pos + 1, Len(s1.genome)),
                 te_identities |->
                     SetItem(s1.te_identities, id, <<pos, pos + length>>),
                 te_count |-> id],
             ret |-> Returned(id)]

ListGenome_insert_te(self, pos0, length) ==
    IF pos0 > Len(self.genome)
    THEN [self |-> self, ret |-> Raised("ValueError")]
    ELSE IF Len(self.genome) = 0
    THEN [self |-> self, ret |-> Raised("ZeroDivisionError")]
    ELSE LET pos == pos0 % Len(self.genome)
             s1 == ListInsertLoop(self, Keys(self.te_identities),
                                  self.te_identities, pos, length)
             id == s1.te_count + 1
         IN [self |->
                [genome |-> SubSeq(s1.genome, 1, pos) \o Repeat("A", length)
                            \o SubSeq(s1.genome, pos + 1, Len(s1.genome)),
                 te_identities |->
                     SetItem(s1.te_identities, id, <<pos, pos + length>>),
                 te_count |-> id],
             ret |-> Returned(id)]

\* copy_te as it would be with the offset taken as the target position,
\* not added to the source's current start.
ListGenome_copy_te_Absolute(self, te, offset) ==
    IF te \notin DOMAIN self.te_identities
    THEN [self |-> self, ret |-> ReturnedNone]
    ELSE LET start == self.te_identities[te][1]
             end == self.te_identities[te][2]
             copy_length == end - start
             copy_pos == offset
         IN ListGenome_insert_te(self, copy_pos, copy_length)

\* copy_te as it would be with the id allocated before the activity check:
\* a copy of an inactive te returns None but uses up an id.
ListGenome_copy_te_AllocFirst(self, te, offset) ==
    IF te \notin DOMAIN self.te_identities
    THEN [self |-> [self EXCEPT !.te_count = @ + 1], ret |-> ReturnedNone]
    ELSE LET start == self.te_identities[te][1]
             end == self.te_identities[te][2]
             copy_length == end - start
             copy_pos == start + offset
         IN ListGenome_insert_te(self, copy_pos, copy_length)

ListGenome_copy_te(self, te, offset) ==
    IF te \notin DOMAIN self.te_identities
    THEN [self |-> self, ret |-> ReturnedNone]
    ELSE LET start == self.te_identities[te][1]
             end == self.te_identities[te][2]
             copy_length == end - start
             copy_pos == start + offset
         IN ListGenome_insert_te(self, copy_pos, copy_length)

\* disable_te as it would be if te_count counted the active TEs: disabling
\* gives the last id back.
ListGenome_disable_te_CountsActive(self, te) ==
    IF te \notin DOMAIN self.te_identities
    THEN [self |-> self, ret |-> Raised("KeyError")]
    ELSE LET start == self.te_identities[te][1]
             end == self.te_identities[te][2]
         IN [self |->
                [self EXCEPT
                    !.te_identities = Pop(@, te),
                    !.te_count = @ - 1,
                    !.genome = SliceAssign(@, start, end,
                                           Repeat("x", end - start))],
             ret |-> ReturnedNone]

ListGenome_disable_te(self, te) ==
    IF te \notin DOMAIN self.te_identities
    THEN [self |-> self, ret |-> Raised("KeyError")]
    ELSE LET start == self.te_identities[te][1]
             end == self.te_identities[te][2]
         IN [self |->
                [self EXCEPT
                    !.te_identities = Pop(@, te),
                    !.genome = SliceAssign(@, start, end,
                                           Repeat("x", end - start))],
             ret |-> ReturnedNone]

ListGenome_active_tes(self) == Keys(self.te_identities)

ListGenome_len(self) == Len(self.genome)

\* "".join(self.genome): the string as its sequence of characters.
ListGenome_str(self) == self.genome

\* ----------------------------------------------------------------- Link
\* The Link objects live in a heap: link h has heap.val[h], heap.prev[h] and
\* heap.next[h].  Links are numbered in order of creation; the sentinel of a
\* genome is the first one.  None is written "None".
EmptyHeap == [val |-> <<>>, prev |-> <<>>, next |-> <<>>]

\* Link(val, p, nx): the heap with one more link, whose handle is
\* Len(heap.val) + 1.
Link(heap, val, p, nx) ==
    [val |-> Append(heap.val, val),
     prev |-> Append(heap.prev, p),
     next |-> Append(heap.next, nx)]

\* insert_after as it would be without its last line: the link after the
\* new one keeps its old prev.
insert_after_NoBackLink(heap, link, val) ==
    LET new_link == Len(heap.val) + 1
        h1 == Link(heap, val, link, heap.next[link])
    IN [h1 EXCEPT !.next[h1.prev[new_link]] = new_link]

insert_after(heap, link, val) ==
    LET new_link == Len(heap.val) + 1
        h1 == Link(heap, val, link, heap.next[link])
        h2 == [h1 EXCEPT !.next[h1.prev[new_link]] = new_link]
    IN [h2 EXCEPT !.prev[h2.next[new_link]] = new_link]

remove_link(heap, link) ==
    LET h1 == [heap EXCEPT !.next[heap.prev[link]] = heap.next[link]]
    IN [h1 EXCEPT !.prev[h1.next[link]] = h1.prev[link]]

\* for _ in range(k): current_link = current_link.next
RECURSIVE Advance(_, _, _)
Advance(heap, current_link, k) ==
    IF k <= 0 THEN current_link
    ELSE Advance(heap, heap.next[current_link], k - 1)

\* for _ in range(k): insert_after(current_link, val);
\*                    current_link = current_link.next
RECURSIVE InsertRun(_, _, _, _)
InsertRun(heap, current_link, val, k) ==
    IF k <= 0 THEN heap
    ELSE LET h1 == insert_after(heap, current_link, val)
         IN InsertRun(h1, h1.next[current_link], val, k - 1)

\* for _ in range(k): current_link.val = val;
\*                    current_link = current_link.next
RECURSIVE SetRun(_, _, _, _)
SetRun(heap, current_link, val, k) ==
    IF k <= 0 THEN heap
    ELSE SetRun([heap EXCEPT !.val[current_link] = val],
                heap.next[current_link], val, k - 1)

\* ----------------------------------------------------- LinkedListGenome
\* for _ in range(k): insert_after(self.head.prev, "-")
RECURSIVE AppendRun(_, _, _)
AppendRun(heap, head, k) ==
    IF k <= 0 THEN heap
    ELSE AppendRun(insert_after(heap, heap.prev[head], "-"), head, k - 1)

LinkedListGenome(size) ==
    LET head == 1
        h0 == Link(EmptyHeap, "None", 0, 0)
        h1 == [h0 EXCEPT !.next[head] = head, !.prev[head] = head]
    IN [heap |-> AppendRun(h1, head, size),
        head |-> head,
        length |-> size,
        te_identities |-> <<>>,
        te_count |-> 0]

LinkedListGenome_disable_te(self, te) ==
    IF te \notin DOMAIN self.te_identities
    THEN [self |-> self, ret |-> Raised("KeyError")]
    ELSE LET start == self.te_identities[te][1]
             end == self.te_identities[te][2]
             current_link == Advance(self.heap, self.heap.next[self.head],
                                     start)
         IN [self |->
                [self EXCEPT
                    !.te_identities = Pop(@, te),
                    !.heap = SetRun(@, current_link, "x", end - start)],
             ret |-> ReturnedNone]

\* The loop of insert_te over the snapshot list(self.te_identities.items()).
RECURSIVE LinkedInsertLoop(_, _, _, _, _)
LinkedInsertLoop(self, ids, items, pos, length) ==
    IF ids = <<>> THEN self
    ELSE LET id == Head(ids)
             start == items[id][1]
             end == items[id][2]
         IN IF start <= pos /\ pos < end
            THEN LinkedInsertLoop(LinkedListGenome_disable_te(self, id).self,
                                  Tail(ids), items, pos, length)
            ELSE IF start > pos
            THEN LinkedInsertLoop(
                     [self EXCEPT
                        !.te_identities =
                            SetItem(@, id, <<start + length, end + length>>)],
                     Tail(ids), items, pos, length)
            ELSE LinkedInsertLoop(self, Tail(ids), items, pos, length)

\* insert_te as it would be without the update of self.length.
LinkedListGenome_insert_te_NoLength(self, pos, length) ==
    IF pos > self.length
    THEN [self |-> self, ret |-> Raised("ValueError")]
    ELSE LET s1 == LinkedInsertLoop(self, Keys(self.te_identities),
                                    self.te_identities, pos, length)
             id == s1.te_count + 1
             current_link == Advance(s1.heap, s1.heap.next[s1.head], pos - 1)
         IN [self |->
                [s1 EXCEPT
                    !.te_count = id,
                    !.te_identities = SetItem(@, id, <<pos, pos + length>>),
                    !.heap = InsertRun(@, current_link, "A", length)],
             ret |-> Returned(id)]

LinkedListGenome_insert_te(self, pos, length) ==
    IF pos > self.length
    THEN [self |-> self, ret |-> Raised("ValueError")]
    ELSE LET s1 == LinkedInsertLoop(self, Keys(self.te_identities),
                                    self.te_identities, pos, length)
             id == s1.te_count + 1
             current_link == Advance(s1.heap, s1.heap.next[s1.head], pos - 1)
         IN [self |->
                [s1 EXCEPT
                    !.te_count = id,
                    !.te_identities = SetItem(@, id, <<pos, pos + length>>),
                    !.heap = InsertRun(@, current_link, "A", length),
                    !.length = @ + length],
             ret |-> Returned(id)]

LinkedListGenome_copy_te(self, te, offset) ==
    IF te \notin DOMAIN self.te_identities
    THEN [self |-> self, ret |-> ReturnedNone]
    ELSE LET start == self.te_identities[te][1]
             end == self.te_identities[te][2]
             copy_length == end - start
         IN IF offset > 0
            THEN LinkedListGenome_insert_te(self, start + offset, copy_length)
            ELSE IF start + offset < 0
            THEN LinkedListGenome_insert_te(self, self.length + start + offset,
                                            copy_length)
            ELSE LinkedListGenome_insert_te(self, start + offset, copy_length)

LinkedListGenome_active_tes(self) == Keys(self.te_identities)

LinkedListGenome_len(self) == self.length

\* The links __str__ visits: self.length links from self.head.next on.
RECURSIVE CollectLinks(_, _, _)
CollectLinks(heap, pos, k) ==
    IF k <= 0 THEN <<>>
    ELSE <<pos>> \o CollectLinks(heap, heap.next[pos], k - 1)

\* "".join(links) with links the vals of the visited links: the string as
\* its sequence of characters.  (Joining a None raises TypeError; the value
\* "None" then shows in the sequence.)
LinkedListGenome_str(self) ==
    LET visited == CollectLinks(self.heap, self.heap.next[self.head],
                                self.length)
    IN [i \in 1..Len(visited) |-> self.heap.val[visited[i]]]

\* ------------------------------------------------------------ the script
Init ==
    /\ n \in 0..MaxN
    /\ lst = ListGenome(n)
    /\ lnk = LinkedListGenome(n)
    /\ call = [op |-> "new", a |-> n, b |-> 0]
    /\ ret = [lst |-> ReturnedNone, lnk |-> ReturnedNone]
    /\ old = [lst |-> lst, lnk |-> lnk]
    /\ calls = 0
    /\ issued = [lst |-> <<>>, lnk |-> <<>>]

\* What the caller notes of a call that returned an id: the id and the
\* length of the TE registered under it; nothing for any other call.
Noted(r) ==
    IF r.ret.kind = "int"
    THEN <<[id |-> r.ret.val,
            length |-> r.self.te_identities[r.ret.val][2]
                       - r.self.te_identities[r.ret.val][1]]>>
    ELSE <<>>

\* One call applied to both genomes: r1 and r2 are what the two methods
\* produce from the current objects.  issued is the caller's log of the ids
\* each genome has returned so far.
Apply(op, a, b, r1, r2) ==
    /\ calls < MaxCalls
    /\ calls' = calls + 1
    /\ call' = [op |-> op, a |-> a, b |-> b]
    /\ old' = [lst |-> lst, lnk |-> lnk]
    /\ lst' = r1.self
    /\ lnk' = r2.self
    /\ ret' = [lst |-> r1.ret, lnk |-> r2.ret]
    /\ issued' = [lst |-> issued.lst \o Noted(r1),
                  lnk |-> issued.lnk \o Noted(r2)]
    /\ UNCHANGED n

InsertTe ==
    \E pos \in 0..(Max(ListGenome_len(lst), LinkedListGenome_len(lnk))
                    + OverPos),
       length \in 1..MaxLength :
        Apply("insert_te", pos, length,
              ListGenome_insert_te(lst, pos, length),
              LinkedListGenome_insert_te(lnk, pos, length))

CopyTe ==
    \E te \in 1..(calls + 1), offset \in -MaxOffset..MaxOffset :
        Apply("copy_te", te, offset,
              ListGenome_copy_te(lst, te, offset),
              LinkedListGenome_copy_te(lnk, te, offset))

DisableTe ==
    \E te \in 1..(calls + 1) :
        Apply("disable_te", te, 0,
              ListGenome_disable_te(lst, te),
              LinkedListGenome_disable_te(lnk, te))

Next == InsertTe \/ CopyTe \/ DisableTe

Spec == Init /\ [][Next]_vars

\* ------------------------------------------------- observing the genomes
Chars == {"-", "A", "x"}

\* The indices (from 0) at which the string str has character c.
IndicesOf(str, c) == {i \in 0..(Len(str) - 1) : str[i + 1] = c}

\* The indices lo..hi-1 all exist in str and hold character c.
Renders(str, lo, hi, c) ==
    \A i \in lo..(hi - 1) : 0 <= i /\ i < Len(str) /\ str[i + 1] = c

\* The set of values a call may leave: the objects, what they show and what
\* the call produced, for the list genome and for the linked genome.
ListView(self) ==
    [str |-> ListGenome_str(self),
     len |-> ListGenome_len(self),
     tes |-> self.te_identities,
     count |-> self.te_count]

LinkedView(self) ==
    [str |-> LinkedListGenome_str(self),
     len |-> LinkedListGenome_len(self),
     tes |-> self.te_identities,
     count |-> self.te_count]

Active(view) == DOMAIN view.tes

\* The non-sentinel links of the ring, walking next from head.next until
\* head comes back (at most every link of the heap).
RECURSIVE RingFrom(_, _, _, _)
RingFrom(heap, head, link, fuel) ==
    IF link = head \/ fuel = 0 THEN <<>>
    ELSE <<link>> \o RingFrom(heap, head, heap.next[link], fuel - 1)

StoreCells(self) ==
    RingFrom(self.heap, self.head, self.heap.next[self.head],
             Len(self.heap.val))

\* ------------------------------------------------------------------- C1
\* C1: after every call of the script the list genome and the linked genome
\* have the same str(), the same set of active_tes() and the same len(), and
\* the call returned the same value (or raised the same error) in both.
C1_CrossImplementationEquivalence ==
    /\ ListGenome_str(lst) = LinkedListGenome_str(lnk)
    /\ Active(ListView(lst)) = Active(LinkedView(lnk))
    /\ ListGenome_len(lst) = LinkedListGenome_len(lnk)
    /\ ret.lst = ret.lnk

\* ------------------------------------------------------------------- C2
\* The registered ranges lie inside the genome, are pairwise disjoint, and
\* cover exactly the cells rendered 'A'.
Consistent(view) ==
    /\ \A t \in Active(view) :
           /\ 0 <= view.tes[t][1]
           /\ view.tes[t][1] < view.tes[t][2]
           /\ view.tes[t][2] <= view.len
    /\ \A t, u \in Active(view) :
           t # u => \/ view.tes[t][2] <= view.tes[u][1]
                    \/ view.tes[u][2] <= view.tes[t][1]
    /\ IndicesOf(view.str, "A") =
           UNION {view.tes[t][1]..(view.tes[t][2] - 1) : t \in Active(view)}

C2_List == Consistent(ListView(lst))

C2_Linked == Consistent(LinkedView(lnk))

\* C2: in every reachable state, for both genomes, the registered ranges
\* satisfy 0 <= start < end <= len, are pairwise disjoint, and the indices
\* rendered 'A' are exactly the union of the registered ranges.
C2_RegistryStorageConsistency == C2_List /\ C2_Linked

\* ------------------------------------------------------------------- C3
C3_List ==
    /\ ListGenome_len(lst) = Len(lst.genome)
    /\ Len(ListGenome_str(lst)) = ListGenome_len(lst)
    /\ \A i \in 1..Len(ListGenome_str(lst)) : ListGenome_str(lst)[i] \in Chars

C3_Linked ==
    /\ LinkedListGenome_len(lnk) = Len(StoreCells(lnk))
    /\ Len(LinkedListGenome_str(lnk)) = LinkedListGenome_len(lnk)
    /\ \A i \in 1..Len(LinkedListGenome_str(lnk)) :
           LinkedListGenome_str(lnk)[i] \in Chars
    /\ \A i \in 1..lnk.length :
           CollectLinks(lnk.heap, lnk.heap.next[lnk.head], lnk.length)[i]
               # lnk.head

\* C3: in every reachable state of either genome, len() is the number of
\* cells in the store and the number of characters of str(), every
\* character of str() is '-', 'A' or 'x', and the linked genome's __str__
\* never visits the sentinel.
C3_LengthInvariant == C3_List /\ C3_Linked

\* A state where C3's case happened: insertions grew both genomes past
\* their constructed size and a TE was disabled, so str() shows all three
\* characters.
C3_Witness ==
    /\ ListGenome_len(lst) > n
    /\ LinkedListGenome_len(lnk) > n
    /\ {ListGenome_str(lst)[i] : i \in 1..Len(ListGenome_str(lst))} = Chars
    /\ {LinkedListGenome_str(lnk)[i] :
            i \in 1..Len(LinkedListGenome_str(lnk))} = Chars

\* ------------------------------------------------- the call just made
OldList == ListView(old.lst)
NewList == ListView(lst)
OldLinked == LinkedView(old.lnk)
NewLinked == LinkedView(lnk)

\* The call was insert_te(pos, length) with 0 <= pos <= len on a genome that
\* has cells, so that pos circularizes to pos mod len.
InsertInRange(before) ==
    /\ call.op = "insert_te"
    /\ 0 <= call.a
    /\ call.a <= before.len
    /\ before.len > 0

Circularized(before) == call.a % before.len

\* ------------------------------------------------------------------- C4
\* The collision rule for one genome, from its view before and after the
\* call.
Collision(before, after) ==
    InsertInRange(before) =>
        \A t \in Active(before) :
            LET pos == Circularized(before)
                length == call.b
                s == before.tes[t][1]
                e == before.tes[t][2]
            IN (s <= pos /\ pos < e) =>
                   /\ t \notin Active(after)
                   /\ Renders(after.str, s, pos, "x")
                   /\ Renders(after.str, pos + length, e + length, "x")
                   /\ Renders(after.str, pos, pos + length, "A")

C4_List == Collision(OldList, NewList)

C4_Linked == Collision(OldLinked, NewLinked)

\* C4: when insert_te(pos, length) is called and the circularized pos falls
\* inside the range [s, e) of an active TE t, then after the call t is not
\* active, t's cells are rendered 'x' (at [s, pos) and at
\* [pos+length, e+length)) and the new TE is rendered 'A' at
\* [pos, pos+length); for both genomes.
C4_Collision == C4_List /\ C4_Linked

\* ------------------------------------------------------------------- C5
\* The shift rule for one genome, from its view before and after the call.
Shift(before, after) ==
    InsertInRange(before) =>
        \A t \in Active(before) :
            LET pos == Circularized(before)
                length == call.b
                s == before.tes[t][1]
                e == before.tes[t][2]
            IN /\ s > pos =>
                   /\ t \in Active(after)
                   /\ after.tes[t] = <<s + length, e + length>>
                   /\ Renders(after.str, s + length, e + length, "A")
               /\ e <= pos =>
                   /\ t \in Active(after)
                   /\ after.tes[t] = <<s, e>>
                   /\ Renders(after.str, s, e, "A")

C5_List == Shift(OldList, NewList)

C5_Linked == Shift(OldLinked, NewLinked)

\* C5: after a successful insert_te(pos, length) every TE that was active
\* with start > pos is registered at (s+length, e+length), every active TE
\* with end <= pos keeps its range, and in both cases the TE's registered
\* range is rendered 'A'; for both genomes.
C5_ShiftCorrectness == C5_List /\ C5_Linked

\* ------------------------------------------------------------------- C6
\* disable_te(x) on an id that is not active returns (None) without raising
\* and changes nothing.
DisableInactiveIsNoOp(before, after, result) ==
    (call.op = "disable_te" /\ call.a \notin Active(before)) =>
        /\ result = ReturnedNone
        /\ after = before

\* C6: calling disable_te on an already-disabled or never-issued id (so
\* also the second of two disable_te(x) calls in a row) completes without
\* raising and leaves str, active_tes and len as they were; for both
\* genomes.
C6_DisableIdempotence ==
    /\ DisableInactiveIsNoOp(OldList, NewList, ret.lst)
    /\ DisableInactiveIsNoOp(OldLinked, NewLinked, ret.lnk)

\* ------------------------------------------------------------------- C7
\* C7: copy_te(te, offset) for a te that is disabled or was never issued
\* returns None and leaves the genome object unchanged (cells, length,
\* registered ranges and id counter); for both genomes.
C7_CopyOfInactive ==
    /\ (call.op = "copy_te" /\ call.a \notin Active(OldList)) =>
           /\ ret.lst = ReturnedNone
           /\ lst = old.lst
    /\ (call.op = "copy_te" /\ call.a \notin Active(OldLinked)) =>
           /\ ret.lnk = ReturnedNone
           /\ lnk = old.lnk

\* A state just after copy_te on a disabled TE (issued earlier, no longer
\* active) while another TE is active, in both genomes.
C7_Witness ==
    /\ call.op = "copy_te"
    /\ call.a <= old.lst.te_count
    /\ call.a <= old.lnk.te_count
    /\ call.a \notin Active(OldList)
    /\ call.a \notin Active(OldLinked)
    /\ Active(OldList) # {}
    /\ Active(OldLinked) # {}
    /\ call.b # 0

\* ------------------------------------------------------------------- C8
\* C8: insert_te(pos, length) with pos > len(genome) raises ValueError and
\* leaves the genome object unchanged (cells, length, registered ranges and
\* id counter); for both genomes.
C8_OutOfRange ==
    /\ (call.op = "insert_te" /\ call.a > OldList.len) =>
           /\ ret.lst = Raised("ValueError")
           /\ lst = old.lst
    /\ (call.op = "insert_te" /\ call.a > OldLinked.len) =>
           /\ ret.lnk = Raised("ValueError")
           /\ lnk = old.lnk

\* A state just after an out-of-range insert_te on genomes that hold an
\* active TE.
C8_Witness ==
    /\ call.op = "insert_te"
    /\ call.a > OldList.len
    /\ call.a > OldLinked.len
    /\ Active(OldList) # {}
    /\ Active(OldLinked) # {}
    /\ ret.lst = Raised("ValueError")
    /\ ret.lnk = Raised("ValueError")

\* ------------------------------------------------------------------- C9
\* insert_te(pos, length) with 0 <= pos <= len returns an id that was not
\* issued before and is active afterwards.
InsertSucceeds(before, after, result) ==
    (call.op = "insert_te" /\ 0 <= call.a /\ call.a <= before.len) =>
        /\ result.kind = "int"
        /\ result.val > before.count
        /\ result.val \in Active(after)

\* C9: in every reachable state of either genome (a genome constructed with
\* n = 0 included), insert_te(pos, length) with 0 <= pos <= len(genome) and
\* length >= 1 completes without raising and returns a new id that is then
\* active.
C9_InsertNeverFails ==
    /\ InsertSucceeds(OldList, NewList, ret.lst)
    /\ InsertSucceeds(OldLinked, NewLinked, ret.lnk)

\* ------------------------------------------------------------------ C10
\* copy_te of an active te at (s, e) with s + offset > len inserts a TE of
\* length e - s at (s + offset) mod len and returns its new id.
PositiveWrap(before, after, result) ==
    (/\ call.op = "copy_te"
     /\ call.a \in Active(before)
     /\ before.tes[call.a][1] + call.b > before.len) =>
        LET s == before.tes[call.a][1]
            e == before.tes[call.a][2]
            p == (s + call.b) % before.len
        IN /\ result.kind = "int"
           /\ result.val \notin Active(before)
           /\ result.val \in Active(after)
           /\ after.tes[result.val] = <<p, p + (e - s)>>

\* C10: for an active te with range (s, e) and an offset with
\* s + offset > len(genome), copy_te(te, offset) does not fail: it inserts a
\* new TE of length e - s at (s + offset) mod len(genome) and returns its
\* id; for both genomes.
C10_PositiveWraparound ==
    /\ PositiveWrap(OldList, NewList, ret.lst)
    /\ PositiveWrap(OldLinked, NewLinked, ret.lnk)

\* ------------------------------------------------------------------ C11
\* copy_te of an active te at (s, e) with s + offset < 0 registers the copy
\* at the wrapped position (s + offset) mod len, which is not negative, and
\* renders it 'A' there.
NegativeWrap(before, after, result) ==
    (/\ call.op = "copy_te"
     /\ call.a \in Active(before)
     /\ before.tes[call.a][1] + call.b < 0) =>
        LET s == before.tes[call.a][1]
            e == before.tes[call.a][2]
            p == (s + call.b) % before.len
        IN /\ result.kind = "int"
           /\ result.val \notin Active(before)
           /\ result.val \in Active(after)
           /\ after.tes[result.val] = <<p, p + (e - s)>>
           /\ after.tes[result.val][1] >= 0
           /\ Renders(after.str, p, p + (e - s), "A")

C11_List == NegativeWrap(OldList, NewList, ret.lst)

C11_Linked == NegativeWrap(OldLinked, NewLinked, ret.lnk)

\* C11: for an active te with range (s, e) and any offset with
\* s + offset < 0, copy_te(te, offset) inserts the copy at the position in
\* [0, len(genome)) obtained by wrapping circularly, (s + offset) mod
\* len(genome); the new TE is registered there, rendered 'A' there and
\* never registered with a negative start; for both genomes.
C11_NegativeWraparound == C11_List /\ C11_Linked

\* ------------------------------------------------------------------ C12
\* The ids a genome has returned are 1, 2, 3, ... in the order of the calls,
\* the id counter is the number of ids returned, only a returned id is ever
\* active, and the call just made moved the counter exactly when it
\* returned an id (the next one).
IdAllocation(before, after, result, log) ==
    /\ \A k \in 1..Len(log) : log[k].id = k
    /\ after.count = Len(log)
    /\ Active(after) \subseteq 1..Len(log)
    /\ call.op # "new" =>
           IF result.kind = "int"
           THEN /\ result.val = before.count + 1
                /\ after.count = result.val
           ELSE after.count = before.count

\* C12: on a fresh genome the k-th successful insertion (insert_te or
\* copy_te) returns id k; an id is never returned twice, also after its TE
\* was disabled, and calls that fail or are no-ops do not use up an id; for
\* both genomes.
C12_IdAllocation ==
    /\ IdAllocation(OldList, NewList, ret.lst, issued.lst)
    /\ IdAllocation(OldLinked, NewLinked, ret.lnk, issued.lnk)

\* A state after three calls of which the middle one returned no id, where
\* id 1 is no longer active and the last call returned id 2, in both
\* genomes.
C12_Witness ==
    /\ calls = 3
    /\ Len(issued.lst) = 2
    /\ Len(issued.lnk) = 2
    /\ ret.lst = Returned(2)
    /\ ret.lnk = Returned(2)
    /\ old.lst.te_count = 1
    /\ old.lnk.te_count = 1
    /\ 1 \notin Active(NewList)
    /\ 1 \notin Active(NewLinked)
    /\ 1 \notin Active(OldList)
    /\ 1 \notin Active(OldLinked)

\* ------------------------------------------------------------------ C13
\* The length the call just made asked to insert: the length argument of
\* insert_te, the length of the source TE for copy_te.
AskedLength(before) ==
    IF call.op = "insert_te" THEN call.b
    ELSE IF call.op = "copy_te" /\ call.a \in Active(before)
    THEN before.tes[call.a][2] - before.tes[call.a][1]
    ELSE 0

LengthGrows(before, after, result) ==
    /\ after.len >= before.len
    /\ call.op # "new" =>
           IF result.kind = "int"
           THEN after.len = before.len + AskedLength(before)
           ELSE after.len = before.len

\* C13: every successful insert_te(pos, length), directly or through
\* copy_te, increases len(genome) by exactly length, also when it disables
\* a colliding TE; disable_te, a failed insert_te and a copy_te returning
\* None leave len(genome) unchanged; len(genome) never decreases; for both
\* genomes.
C13_LengthOnlyGrows ==
    /\ LengthGrows(OldList, NewList, ret.lst)
    /\ LengthGrows(OldLinked, NewLinked, ret.lnk)

\* A state just after an insertion that disabled a colliding TE, in both
\* genomes.
C13_Witness ==
    /\ call.op \in {"insert_te", "copy_te"}
    /\ ret.lst.kind = "int"
    /\ ret.lnk.kind = "int"
    /\ Active(OldList) \ Active(NewList) # {}
    /\ Active(OldLinked) \ Active(NewLinked) # {}
    /\ NewList.len > OldList.len
    /\ NewLinked.len > OldLinked.len

\* ------------------------------------------------------------------ C14
\* insert_te(len, length) on a genome with cells acts as insert_te(0,
\* length): atZero is the object insert_te(0, length) gives from the same
\* object.
CircularizesEnd(before, after, result, object, atZero) ==
    (call.op = "insert_te" /\ call.a = before.len /\ before.len > 0) =>
        /\ result.kind = "int"
        /\ result.val \in Active(after)
        /\ after.tes[result.val] = <<0, call.b>>
        /\ Renders(after.str, 0, call.b, "A")
        /\ \A t \in Active(before) :
               before.tes[t][1] > 0 =>
                   /\ t \in Active(after)
                   /\ after.tes[t] = <<before.tes[t][1] + call.b,
                                       before.tes[t][2] + call.b>>
        /\ object = atZero

C14_List ==
    CircularizesEnd(OldList, NewList, ret.lst, lst,
                    ListGenome_insert_te(old.lst, 0, call.b).self)

C14_Linked ==
    CircularizesEnd(OldLinked, NewLinked, ret.lnk, lnk,
                    LinkedListGenome_insert_te(old.lnk, 0, call.b).self)

\* C14: in any reachable state with len(genome) > 0,
\* insert_te(len(genome), length) is treated as position 0: it has the
\* effect of insert_te(0, length), the new TE is registered at (0, length)
\* and rendered 'A' at [0, length), and every previously active TE that
\* does not start at 0 is shifted forward by length; for both genomes.
C14_CircularizesEnd == C14_List /\ C14_Linked

\* ------------------------------------------------------------------ C15
\* disable_te(te) on an active te at (s, e): te alone leaves the registry,
\* the cells [s, e) are 'x', every other cell, every other range, the length
\* and the id counter are as before.
DisableEffect(before, after, result) ==
    (call.op = "disable_te" /\ call.a \in Active(before)) =>
        LET s == before.tes[call.a][1]
            e == before.tes[call.a][2]
        IN /\ result = ReturnedNone
           /\ Active(after) = Active(before) \ {call.a}
           /\ \A t \in Active(after) : after.tes[t] = before.tes[t]
           /\ after.len = before.len
           /\ after.count = before.count
           /\ Len(after.str) = Len(before.str)
           /\ Renders(after.str, s, e, "x")
           /\ \A i \in 0..(Len(before.str) - 1) :
                  (i < s \/ i >= e) => after.str[i + 1] = before.str[i + 1]

C15_List == DisableEffect(OldList, NewList, ret.lst)

C15_Linked == DisableEffect(OldLinked, NewLinked, ret.lnk)

\* C15: if te is active with range (s, e), disable_te(te) removes exactly te
\* from active_tes(), turns exactly the cells [s, e) to 'x' and leaves the
\* ranges of all other active TEs, every cell outside [s, e), len(genome)
\* and the id counter unchanged; for both genomes.
C15_DisableEffectAndFrame == C15_List /\ C15_Linked

\* ------------------------------------------------------------------ C16
\* An id that was issued and is not active stays inactive, and copy_te on it
\* returns None.
StaysInactive(before, after, result) ==
    /\ \A t \in 1..before.count :
           t \notin Active(before) => t \notin Active(after)
    /\ (/\ call.op = "copy_te"
        /\ call.a \in 1..before.count
        /\ call.a \notin Active(before)) => result = ReturnedNone

\* Where the call just made put its new cells in the list genome (the
\* circularized position), and how many.
ListInsertPoint ==
    IF call.op = "insert_te" THEN call.a % OldList.len
    ELSE (OldList.tes[call.a][1] + call.b) % OldList.len

ListGrowth == NewList.len - OldList.len

\* Where the cell at index i before the call is after the call.
ListShifted(i) ==
    IF ListGrowth > 0 /\ i >= ListInsertPoint THEN i + ListGrowth ELSE i

C16_List ==
    /\ StaysInactive(OldList, NewList, ret.lst)
    /\ \A t \in Active(OldList) \ Active(NewList) :
           \A i \in OldList.tes[t][1]..(OldList.tes[t][2] - 1) :
               /\ 0 <= i /\ i < OldList.len
               /\ Renders(NewList.str, ListShifted(i), ListShifted(i) + 1, "x")
    /\ \A i \in IndicesOf(OldList.str, "x") :
           Renders(NewList.str, ListShifted(i), ListShifted(i) + 1, "x")

\* The links __str__ visits, in order: the link at index i is the (i+1)-th.
Visited(self) ==
    CollectLinks(self.heap, self.heap.next[self.head], self.length)

C16_Linked ==
    /\ StaysInactive(OldLinked, NewLinked, ret.lnk)
    /\ \A t \in Active(OldLinked) \ Active(NewLinked) :
           \A i \in OldLinked.tes[t][1]..(OldLinked.tes[t][2] - 1) :
               /\ 0 <= i /\ i < OldLinked.len
               /\ lnk.heap.val[Visited(old.lnk)[i + 1]] = "x"
    /\ \A i \in 1..Len(Visited(old.lnk)) :
           old.lnk.heap.val[Visited(old.lnk)[i]] = "x" =>
               /\ lnk.heap.val[Visited(old.lnk)[i]] = "x"
               /\ \E j \in 1..Len(Visited(lnk)) :
                      Visited(lnk)[j] = Visited(old.lnk)[i]

\* C16: once an issued id has left active_tes() (by disable_te or by a
\* colliding insertion) it is never active again, copy_te on it returns
\* None, and the cells it occupied are rendered 'x' in every later state:
\* they are 'x' when it leaves and an 'x' cell stays 'x', moved only by the
\* length of a later insertion before it; for both genomes.
C16_DisablingIsPermanent == C16_List /\ C16_Linked

\* ------------------------------------------------------------------ C17
\* The call just made was copy_te of an active te whose target position
\* start + offset lies in 0..len.
CopyInRange(before) ==
    /\ call.op = "copy_te"
    /\ call.a \in Active(before)
    /\ 0 <= before.tes[call.a][1] + call.b
    /\ before.tes[call.a][1] + call.b <= before.len

\* What the copy did to the registry, given the greatest target position
\* (last) up to which a target at or past the source's end is said to leave
\* the source where it is.
CopyRegistry(before, after, result, last) ==
    LET s == before.tes[call.a][1]
        e == before.tes[call.a][2]
        p == s + call.b
    IN /\ result.kind = "int"
       /\ result.val # call.a
       /\ result.val \notin Active(before)
       /\ result.val \in Active(after)
       /\ after.tes[result.val][2] - after.tes[result.val][1] = e - s
       /\ (p >= e /\ p <= last) =>
              /\ call.a \in Active(after)
              /\ after.tes[call.a] = <<s, e>>
       /\ p < s =>
              /\ call.a \in Active(after)
              /\ after.tes[call.a] = <<s + (e - s), e + (e - s)>>

CopyList(last) ==
    CopyInRange(OldList) =>
        LET s == OldList.tes[call.a][1]
            e == OldList.tes[call.a][2]
            viaInsert == ListGenome_insert_te(old.lst, s + call.b, e - s)
        IN /\ lst = viaInsert.self
           /\ ret.lst = viaInsert.ret
           /\ CopyRegistry(OldList, NewList, ret.lst, last)

CopyLinked(last) ==
    CopyInRange(OldLinked) =>
        LET s == OldLinked.tes[call.a][1]
            e == OldLinked.tes[call.a][2]
            viaInsert == LinkedListGenome_insert_te(old.lnk, s + call.b, e - s)
        IN /\ lnk = viaInsert.self
           /\ ret.lnk = viaInsert.ret
           /\ CopyRegistry(OldLinked, NewLinked, ret.lnk, last)

\* C17 as stated: for an active te registered at (s, e) and an offset with
\* 0 <= s + offset <= len(genome), copy_te(te, offset) has the effect and
\* return value of insert_te(s + offset, e - s), the new TE has the source's
\* length and a new id, a target at or past the source's end (up to
\* len(genome)) leaves the source active and unmoved, and a target before
\* the source's start leaves it active and shifted by e - s.
C17_CopyAsStated ==
    /\ CopyList(OldList.len)
    /\ CopyLinked(OldLinked.len)

\* C17 as amended: the same, but a target at or past the source's end
\* leaves the source active and unmoved only when the target is below
\* len(genome); a target equal to len(genome) is an insert_te(len, e - s).
C17_CopyUsesCurrentRange ==
    /\ CopyList(OldList.len - 1)
    /\ CopyLinked(OldLinked.len - 1)

\* A state just after copy_te(1, offset) where TE 1 had been shifted by the
\* insertion of TE 2 before it, to a target past TE 1's end and below len,
\* in both genomes.
C17_Witness ==
    /\ CopyInRange(OldList)
    /\ CopyInRange(OldLinked)
    /\ call.a = 1
    /\ 2 \in Active(OldList)
    /\ 2 \in Active(OldLinked)
    /\ OldList.tes[2][1] < OldList.tes[1][1]
    /\ OldLinked.tes[2][1] < OldLinked.tes[1][1]
    /\ OldList.tes[1][1] + call.b >= OldList.tes[1][2]
    /\ OldList.tes[1][1] + call.b < OldList.len
    /\ OldLinked.tes[1][1] + call.b >= OldLinked.tes[1][2]
    /\ OldLinked.tes[1][1] + call.b < OldLinked.len
    /\ ret.lst = Returned(3)
    /\ ret.lnk = Returned(3)

\* ------------------------------------------------------------------ C18
\* copy_te of an active te at (s, e) with 0 <= offset < e - s puts the copy
\* inside the source: the source leaves the registry, its cells are 'x'
\* around the copy, and the copy is registered and rendered 'A' at
\* [s + offset, s + offset + (e - s)).
SelfCollision(before, after, result) ==
    (/\ call.op = "copy_te"
     /\ call.a \in Active(before)
     /\ 0 <= call.b
     /\ call.b < before.tes[call.a][2] - before.tes[call.a][1]) =>
        LET s == before.tes[call.a][1]
            e == before.tes[call.a][2]
            p == s + call.b
        IN /\ result.kind = "int"
           /\ call.a \notin Active(after)
           /\ result.val \in Active(after)
           /\ after.tes[result.val] = <<p, p + (e - s)>>
           /\ Renders(after.str, s, p, "x")
           /\ Renders(after.str, p + (e - s), e + (e - s), "x")
           /\ Renders(after.str, p, p + (e - s), "A")

C18_List == SelfCollision(OldList, NewList, ret.lst)

C18_Linked == SelfCollision(OldLinked, NewLinked, ret.lnk)

\* C18: for an active te with range (s, e) and an offset with
\* 0 <= offset < e - s (offset 0 in particular), copy_te(te, offset)
\* disables the source: te is not active afterwards, all of its former
\* cells render 'x', and the returned new id is active at
\* [s + offset, s + offset + (e - s)); for both genomes.
C18_SelfCollisionOnCopy == C18_List /\ C18_Linked

\* ------------------------------------------------------------------ C19
\* The sum of the lengths of the insertions noted in a log.
RECURSIVE InsertedLength(_)
InsertedLength(log) ==
    IF log = <<>> THEN 0 ELSE Head(log).length + InsertedLength(Tail(log))

EmptyCellsKept(view, log) ==
    /\ Cardinality(IndicesOf(view.str, "-")) = n
    /\ Cardinality(IndicesOf(view.str, "A"))
           + Cardinality(IndicesOf(view.str, "x")) = InsertedLength(log)

C19_List == EmptyCellsKept(NewList, issued.lst)

C19_Linked == EmptyCellsKept(NewLinked, issued.lnk)

\* C19: for a genome constructed with n cells, in every reachable state the
\* number of '-' characters of str(genome) is exactly n, and the number of
\* 'A' plus 'x' characters is the sum of the lengths of all successful
\* insertions; for both genomes.
C19_EmptyCellsPreserved == C19_List /\ C19_Linked

\* ------------------------------------------------------------------ C20
RingWellFormed(self) ==
    LET heap == self.heap
        links == 1..Len(heap.val)
    IN /\ \A l \in links :
              /\ heap.next[l] \in links
              /\ heap.prev[l] \in links
              /\ heap.prev[heap.next[l]] = l
              /\ heap.next[heap.prev[l]] = l
       /\ Advance(heap, self.head, self.length + 1) = self.head
       /\ \A k \in 1..self.length : Advance(heap, self.head, k) # self.head
       /\ Len(StoreCells(self)) = Len(heap.val) - 1
       /\ heap.val[self.head] = "None"
       /\ \A l \in links \ {self.head} : heap.val[l] \in Chars

\* C20: in every reachable state the links of the linked genome form one
\* doubly linked ring through the sentinel head: l.next.prev and
\* l.prev.next are l for every link l, following next from head comes back
\* to head after exactly self.length + 1 steps, and the sentinel is the only
\* link whose val is None (no traversal of insert_te or disable_te has
\* written a character to it).
C20_RingWellFormed == RingWellFormed(lnk)

\* A state where the ring has grown by insertions and a disable_te or a
\* collision has written 'x' to links, one of them at index 0.
C20_Witness ==
    /\ lnk.length >= n + 2
    /\ calls >= 2
    /\ lnk.length > 0
    /\ lnk.heap.val[lnk.heap.next[lnk.head]] = "x"
    /\ IndicesOf(LinkedListGenome_str(lnk), "A") # {}

====
